---- MODULE Spec2Model ----
(***************************************************************************)
(* Crypto Alpha agent (src/src/index.ts): the source clients, the signal   *)
(* engine buildAlphaSignals and the request handlers of the HTTP           *)
(* entrypoints, as a state machine over in-flight requests.                *)
(*                                                                         *)
(* JavaScript values are tagged records (field k is the tag), so that a    *)
(* missing field, a null, a number and a string stay distinguishable the   *)
(* way the code's comparisons and method calls distinguish them.           *)
(***************************************************************************)
EXTENDS Integers, Sequences, FiniteSets, TLC

VARIABLES
    pc,     \* per request: where its handler stands
    req,    \* per request: the parsed request (operation, payment proof, input)
    raw,    \* per request and source call: what the upstream answered
    slot,   \* per request and source call: the promise the handler awaits
    sig,    \* per request: what buildAlphaSignals did (returned list or throw)
    resp    \* per request: the HTTP response

vars == <<pc, req, raw, slot, sig, resp>>

Reqs == {"r1"}

(***************************************************************************)
(* Bounds of the model.                                                    *)
(***************************************************************************)
MaxCoins == 4          \* longest trending feed drawn for the signal engine
MaxProtocols == 4      \* longest raw protocol list drawn for the signal engine
MaxScore == 100        \* largest sentiment score drawn (the index runs 0..100)
MaxTokenLen == 2       \* longest token id drawn (in characters)
MaxRaw == 12           \* longest raw protocol list drawn for fetchTopDeFi

(***************************************************************************)
(* Program constants.                                                      *)
(***************************************************************************)
DefaultScore == 50         \* parseInt(... || '50')
FearMax == 25              \* fgValue <= 25
FearHigh == 15             \* fgValue <= 15 ? 'high'
GreedMin == 75             \* fgValue >= 75
GreedHigh == 85            \* fgValue >= 85 ? 'high'
DexVolumeMin == 5          \* dexVolume?.change24h > 5
PriceDropMax == -2         \* price_change_percentage_24h < -2
TrendingMin == 10          \* priceChange > 10
TvlGrowthMin == 10         \* protocol.tvlChange7d > 10
TrendingWindow == 3        \* trendingCoins.slice(0, 3)
ProtocolWindow == 3        \* defi.slice(0, 3)
TopProtocols == 10         \* .slice(0, 10) in fetchTopDeFi
TopTrending == 10          \* data.coins?.slice(0, 10)
MaxChains == 5             \* p.chains?.slice(0, 5)
DigestTrending == 5        \* trending?.coins?.slice(0, 5)
DigestDeFi == 5            \* defi?.slice(0, 5)

(***************************************************************************)
(* JavaScript values.                                                      *)
(***************************************************************************)
Null == [k |-> "null"]
Undef == [k |-> "undef"]
Num(n) == [k |-> "num", n |-> n]             \* a JSON number
NumStr(n) == [k |-> "numstr", n |-> n]       \* a string of decimal digits
Garbage == [k |-> "garbage"]                 \* a non-numeric, non-empty string
Text(s) == [k |-> "text", s |-> s]           \* a string used as text
Chars(cs) == [k |-> "chars", cs |-> cs]      \* a string, character by character
NaN == [k |-> "nan"]
List(items) == [k |-> "list", items |-> items]
Obj == [k |-> "obj"]                         \* an object that is not an array

Nullish(x) == x.k \in {"null", "undef"}

\* ToNumber as the relational operators apply it: null is 0, undefined and a
\* non-numeric string are NaN, a numeric string is its number.
ToNumber(x) ==
    CASE x.k = "num" -> Num(x.n)
      [] x.k = "numstr" -> Num(x.n)
      [] x.k = "null" -> Num(0)
      [] OTHER -> NaN

\* x > c and x < c for a number literal c: false when x converts to NaN.
JSGt(x, c) == LET n == ToNumber(x) IN n.k = "num" /\ n.n > c
JSLt(x, c) == LET n == ToNumber(x) IN n.k = "num" /\ n.n < c
JSLe(x, c) == LET n == ToNumber(x) IN n.k = "num" /\ n.n <= c
JSGe(x, c) == LET n == ToNumber(x) IN n.k = "num" /\ n.n >= c

\* x.toFixed(d) exists on numbers only: on a string it is a TypeError.
HasToFixed(x) == x.k = "num"

\* Truthiness, for the `a || b` defaults.
Falsy(x) ==
    \/ Nullish(x)
    \/ (x.k = "num" /\ x.n = 0)
    \/ (x.k = "text" /\ x.s = "")
    \/ (x.k = "chars" /\ x.cs = <<>>)
Or(x, d) == IF Falsy(x) THEN d ELSE x

\* parseInt of a value: a numeric string or a number gives the integer,
\* anything else NaN.
parseInt(x) ==
    CASE x.k = "numstr" -> Num(x.n)
      [] x.k = "num" -> Num(x.n)
      [] OTHER -> NaN

Min(a, b) == IF a < b THEN a ELSE b

\* xs.slice(0, n)
Slice(xs, n) == SubSeq(xs, 1, Min(n, Len(xs)))

\* String.prototype.toUpperCase on the ticker symbols the model draws.
toUpperCase(s) ==
    CASE s = "pepe" -> "PEPE"
      [] s = "wif" -> "WIF"
      [] s = "bonk" -> "BONK"
      [] s = "mog" -> "MOG"
      [] s = "floki" -> "FLOKI"
      [] OTHER -> s

(***************************************************************************)
(* buildAlphaSignals: the four rules, in the order the function runs them. *)
(* Each rule yields [threw, out]: the signals it pushed, or a TypeError.   *)
(***************************************************************************)
Signal(type, asset, head, num, tail, confidence) ==
    [type |-> type, asset |-> asset,
     title |-> [head |-> head, num |-> num, tail |-> tail],
     confidence |-> confidence, actionable |-> TRUE]

Pushed(sigs) == [threw |-> FALSE, out |-> sigs]
Threw == [threw |-> TRUE, out |-> <<>>]

\* fearGreed?.data?.[0]
FirstReading(fearGreed) ==
    IF Nullish(fearGreed) THEN Undef
    ELSE IF fearGreed.data.k = "list" /\ Len(fearGreed.data.items) > 0
         THEN fearGreed.data.items[1]
         ELSE Undef

\* fearGreed?.data?.[0]?.value and ?.value_classification
ReadingValue(fearGreed) ==
    LET d == FirstReading(fearGreed) IN IF Nullish(d) THEN Undef ELSE d.value
ReadingClass(fearGreed) ==
    LET d == FirstReading(fearGreed) IN
    IF Nullish(d) THEN Undef ELSE d.value_classification

SentimentSignalsLt(fearGreed) ==
    LET fgValue == parseInt(Or(ReadingValue(fearGreed), NumStr(DefaultScore)))
        fgClass == Or(ReadingClass(fearGreed), Text("Neutral"))
    IN  IF JSLt(fgValue, FearMax)
        THEN Pushed(<<Signal("sentiment", "", fgClass.s, fgValue.n,
                             "Potential Buy Zone",
                             IF JSLe(fgValue, FearHigh) THEN "high" ELSE "medium")>>)
        ELSE IF JSGe(fgValue, GreedMin)
        THEN Pushed(<<Signal("sentiment", "", fgClass.s, fgValue.n,
                             "Caution Zone",
                             IF JSGt(fgValue, GreedHigh) THEN "high" ELSE "medium")>>)
        ELSE Pushed(<<>>)

SentimentSignals(fearGreed) ==
    LET fgValue == parseInt(Or(ReadingValue(fearGreed), NumStr(DefaultScore)))
        fgClass == Or(ReadingClass(fearGreed), Text("Neutral"))
    IN  IF JSLe(fgValue, FearMax)
        THEN Pushed(<<Signal("sentiment", "", fgClass.s, fgValue.n,
                             "Potential Buy Zone",
                             IF JSLe(fgValue, FearHigh) THEN "high" ELSE "medium")>>)
        ELSE IF JSGe(fgValue, GreedMin)
        THEN Pushed(<<Signal("sentiment", "", fgClass.s, fgValue.n,
                             "Caution Zone",
                             IF JSGe(fgValue, GreedHigh) THEN "high" ELSE "medium")>>)
        ELSE Pushed(<<>>)

\* dexVolume?.change24h
DexChange(dexVolume) == IF Nullish(dexVolume) THEN Undef ELSE dexVolume.change24h

\* topCoins?.[0]?.price_change_percentage_24h
PrimaryChange(topCoins) ==
    IF Nullish(topCoins) THEN Undef
    ELSE IF topCoins.k = "list" /\ Len(topCoins.items) > 0
              /\ ~Nullish(topCoins.items[1])
         THEN topCoins.items[1].price_change_percentage_24h
         ELSE Undef

WhaleSignalsGe(dexVolume, topCoins) ==
    IF JSGe(DexChange(dexVolume), DexVolumeMin)
       /\ JSLe(PrimaryChange(topCoins), PriceDropMax)
    THEN IF HasToFixed(dexVolume.change24h)
         THEN Pushed(<<Signal("whale", "", "Volume/Price Divergence", 0,
                              "Smart Money Repositioning", "medium")>>)
         ELSE Threw
    ELSE Pushed(<<>>)

WhaleSignals(dexVolume, topCoins) ==
    IF JSGt(DexChange(dexVolume), DexVolumeMin)
       /\ JSLt(PrimaryChange(topCoins), PriceDropMax)
    THEN IF HasToFixed(dexVolume.change24h)
         THEN Pushed(<<Signal("whale", "", "Volume/Price Divergence", 0,
                              "Smart Money Repositioning", "medium")>>)
         ELSE Threw
    ELSE Pushed(<<>>)

\* The loop over trendingCoins.slice(0, 3): coin.item on a null entry and
\* priceChange.toFixed on a string are TypeErrors that end the function.
RECURSIVE NarrativeLoop(_, _, _)
NarrativeLoop(coins, i, acc) ==
    IF i > Len(coins) THEN Pushed(acc)
    ELSE LET coin == coins[i] IN
         IF Nullish(coin) THEN Threw
         ELSE LET priceChange == coin.change IN
              IF JSGt(priceChange, TrendingMin)
              THEN IF HasToFixed(priceChange)
                   THEN NarrativeLoop(coins, i + 1,
                            Append(acc, Signal("narrative", toUpperCase(coin.symbol),
                                               coin.name, priceChange.n,
                                               "trending", "medium")))
                   ELSE Threw
              ELSE NarrativeLoop(coins, i + 1, acc)

NarrativeSignalsWholeFeed(trending) ==
    LET coins == IF Nullish(trending) THEN Undef ELSE trending.coins IN
    IF Falsy(coins) THEN Pushed(<<>>)
    ELSE IF coins.k # "list" THEN Threw
    ELSE NarrativeLoop(coins.items, 1, <<>>)

\* trending?.coins || [] ; a coins field that is no array has no usable slice.
NarrativeSignals(trending) ==
    LET coins == IF Nullish(trending) THEN Undef ELSE trending.coins IN
    IF Falsy(coins) THEN Pushed(<<>>)
    ELSE IF coins.k # "list" THEN Threw
    ELSE NarrativeLoop(Slice(coins.items, TrendingWindow), 1, <<>>)

RECURSIVE ProtocolLoopGe(_, _, _)
ProtocolLoopGe(protocols, i, acc) ==
    IF i > Len(protocols) THEN Pushed(acc)
    ELSE LET protocol == protocols[i] IN
         IF JSGe(protocol.tvlChange7d, TvlGrowthMin)
         THEN IF HasToFixed(protocol.tvlChange7d)
              THEN ProtocolLoopGe(protocols, i + 1,
                       Append(acc, Signal("protocol", protocol.name, protocol.name,
                                          protocol.tvlChange7d.n,
                                          "TVL up weekly", "medium")))
              ELSE Threw
         ELSE ProtocolLoopGe(protocols, i + 1, acc)

RECURSIVE ProtocolLoop(_, _, _)
ProtocolLoop(protocols, i, acc) ==
    IF i > Len(protocols) THEN Pushed(acc)
    ELSE LET protocol == protocols[i] IN
         IF JSGt(protocol.tvlChange7d, TvlGrowthMin)
         THEN IF HasToFixed(protocol.tvlChange7d)
              THEN ProtocolLoop(protocols, i + 1,
                       Append(acc, Signal("protocol", protocol.name, protocol.name,
                                          protocol.tvlChange7d.n,
                                          "TVL up weekly", "medium")))
              ELSE Threw
         ELSE ProtocolLoop(protocols, i + 1, acc)

\* defi.slice(0, 3): defi is dereferenced without a guard, so a null defi
\* is a TypeError.
ProtocolSignals(defi) ==
    IF Nullish(defi) THEN Threw
    ELSE ProtocolLoop(Slice(defi.items, ProtocolWindow), 1, <<>>)

\* The rules run in sequence on one list; the first TypeError ends the call.
Chain(a, b) ==
    IF a.threw \/ b.threw THEN Threw ELSE Pushed(a.out \o b.out)

buildAlphaSignalsReordered(fearGreed, trending, topCoins, defi, dexVolume) ==
    Chain(Chain(Chain(WhaleSignals(dexVolume, topCoins),
                      SentimentSignals(fearGreed)),
                ProtocolSignals(defi)),
          NarrativeSignals(trending))

\* An array kept outside the function would still hold what an earlier call
\* pushed.
SharedSignals ==
    LET built == {r \in DOMAIN sig : sig[r].called /\ ~sig[r].threw} IN
    IF built = {} THEN <<>> ELSE sig[CHOOSE r \in built : TRUE].out

\* const signals: any[] = []: every call starts from an empty array of its own.
NewSignals == <<>>

buildAlphaSignals(fearGreed, trending, topCoins, defi, dexVolume) ==
    Chain(Chain(Chain(Chain(Pushed(NewSignals), SentimentSignals(fearGreed)),
                      WhaleSignals(dexVolume, topCoins)),
                NarrativeSignals(trending)),
          ProtocolSignals(defi))

(***************************************************************************)
(* Source clients.  An upstream answer is a transport failure (fetch       *)
(* rejects), a body that is no JSON (res.json() rejects), or a status with *)
(* a JSON body.  A client resolves with its value or rejects with an error.*)
(***************************************************************************)
Transport == [k |-> "transport"]
BadJson == [k |-> "badjson"]
Http(status, body) == [k |-> "http", status |-> status, body |-> body]

Resolved(v) == [k |-> "resolved", v |-> v]
Rejected(kind, id) == [k |-> "rejected", err |-> [kind |-> kind, id |-> id]]
Pending(arg) == [k |-> "pending", arg |-> arg]
NoId == <<>>

\* const res = await fetch(url); return res.json();  res.ok is never read.
FetchJson(outcome) ==
    CASE outcome.k = "transport" -> Rejected("transport", NoId)
      [] outcome.k = "badjson" -> Rejected("syntax", NoId)
      [] OTHER -> Resolved(outcome.body)

fetchFearGreed(outcome) == FetchJson(outcome)
fetchTrending(outcome) == FetchJson(outcome)
fetchTopCoins(outcome) == FetchJson(outcome)

\* (b.tvl || 0) - (a.tvl || 0): the value the comparator subtracts.
TvlKey(p) == LET n == ToNumber(Or(p.tvl, Num(0))) IN IF n.k = "num" THEN n.n ELSE 0

\* Array.prototype.sort is stable: an entry goes behind every kept entry
\* whose tvl is not smaller.
RECURSIVE InsertByTvl(_, _)
InsertByTvl(sorted, p) ==
    IF sorted = <<>> THEN <<p>>
    ELSE IF TvlKey(Head(sorted)) >= TvlKey(p)
         THEN <<Head(sorted)>> \o InsertByTvl(Tail(sorted), p)
         ELSE <<p>> \o sorted

RECURSIVE SortByTvlDesc(_)
SortByTvlDesc(ps) ==
    IF ps = <<>> THEN <<>>
    ELSE InsertByTvl(SortByTvlDesc(SubSeq(ps, 1, Len(ps) - 1)), ps[Len(ps)])

\* p.chains?.slice(0, 5) || []
NormalChains(p) ==
    IF Nullish(p.chains) THEN List(<<>>) ELSE List(Slice(p.chains.items, MaxChains))

NormalProtocol(p) ==
    [k |-> "obj", name |-> p.name, category |-> p.category, tvl |-> p.tvl,
     tvlChange24h |-> p.change_1d, tvlChange7d |-> p.change_7d,
     chains |-> NormalChains(p)]

NormalizeProtocolsGe(body) ==
    IF body.k # "list" THEN Rejected("type", NoId)
    ELSE IF \E i \in 1..Len(body.items) : Nullish(body.items[i])
    THEN Rejected("type", NoId)
    ELSE LET kept == SelectSeq(body.items, LAMBDA p : JSGe(p.tvl, 0))
             top == Slice(SortByTvlDesc(kept), TopProtocols)
         IN  Resolved(List([i \in 1..Len(top) |-> NormalProtocol(top[i])]))

\* protocols.filter(p => p.tvl > 0).sort(...).slice(0, 10).map(...): a body
\* that is no array has no filter, and p.tvl on a null entry is a TypeError.
NormalizeProtocols(body) ==
    IF body.k # "list" THEN Rejected("type", NoId)
    ELSE IF \E i \in 1..Len(body.items) : Nullish(body.items[i])
    THEN Rejected("type", NoId)
    ELSE LET kept == SelectSeq(body.items, LAMBDA p : JSGt(p.tvl, 0))
             top == Slice(SortByTvlDesc(kept), TopProtocols)
         IN  Resolved(List([i \in 1..Len(top) |-> NormalProtocol(top[i])]))

fetchTopDeFi(outcome) ==
    LET res == FetchJson(outcome) IN
    IF res.k = "rejected" THEN res ELSE NormalizeProtocols(res.v)

\* data.total24h on a null body is a TypeError.
fetchDexVolume(outcome) ==
    LET res == FetchJson(outcome) IN
    IF res.k = "rejected" THEN res
    ELSE IF Nullish(res.v) THEN Rejected("type", NoId)
    ELSE IF res.v.k # "obj" THEN Resolved([k |-> "obj", total24h |-> Undef,
                                           change24h |-> Undef, change7d |-> Undef])
    ELSE Resolved([k |-> "obj", total24h |-> res.v.total24h,
                   change24h |-> res.v.change_1d, change7d |-> res.v.change_7d])

\* if (!res.ok) throw new Error(`Token ${tokenId} not found`): every status
\* outside 200..299 takes this branch.
ResOk(status) == status >= 200 /\ status <= 299

fetchTokenInfo(tokenId, outcome) ==
    IF outcome.k = "transport" THEN Rejected("transport", NoId)
    ELSE IF outcome.k = "badjson" THEN Rejected("syntax", NoId)
    ELSE IF ~ResOk(outcome.status) THEN Rejected("notfound", tokenId)
    ELSE IF Nullish(outcome.body) THEN Rejected("type", NoId)
    ELSE Resolved([k |-> "obj", id |-> outcome.body.id,
                   symbol |-> outcome.body.symbol,
                   priceChange7d |-> outcome.body.change7d,
                   athChangePercentage |-> outcome.body.athChange])

(***************************************************************************)
(* Requests and handlers.                                                  *)
(***************************************************************************)
Ops == {"ping", "fear-greed", "daily-alpha", "trending", "defi-stats", "token-intel"}

PaidOpsTokenIntelFree == {"daily-alpha", "trending", "defi-stats"}

\* paidRoutes: the paths the payment middleware is mounted on.
PaidOps == {"daily-alpha", "trending", "defi-stats", "token-intel"}

Calls == {"fearGreed", "trending", "topCoins", "defi", "dexVolume", "token"}
DigestCalls == {"fearGreed", "trending", "topCoins", "defi", "dexVolume"}

GroupOf(c) ==
    CASE c = "fearGreed" -> "feargreed"
      [] c \in {"trending", "topCoins"} -> "coingecko"
      [] OTHER -> "defillama"

DefaultSources == <<"coingecko", "defillama", "feargreed">>

Includes(xs, x) == \E i \in DOMAIN xs : xs[i] = x

\* input.sources || [...]: an array is truthy even when it is empty.
SelectedSourcesEmptyIsDefault(sources) ==
    IF Falsy(sources) \/ sources.items = <<>> THEN DefaultSources ELSE sources.items

SelectedSources(sources) ==
    IF Falsy(sources) THEN DefaultSources ELSE sources.items

\* String.prototype.toLowerCase, character by character.
LowerChar(ch) ==
    CASE ch = "B" -> "b"
      [] ch = "T" -> "t"
      [] ch = "C" -> "c"
      [] OTHER -> ch

toLowerCase(cs) == [i \in 1..Len(cs) |-> LowerChar(cs[i])]

Bitcoin == <<"b", "i", "t", "c", "o", "i", "n">>

\* input.token || 'bitcoin', then token.toLowerCase()
LookupIdVerbatim(token) == Or(token, Chars(Bitcoin)).cs

LookupId(token) == toLowerCase(Or(token, Chars(Bitcoin)).cs)

Unused == [k |-> "unused"]
NotAsked == [k |-> "none"]

NoResp == [kind |-> "none", status |-> "", out |-> Undef]
\* A handler that throws is answered by the framework's error handler.
InternalError == [kind |-> "error", status |-> "", out |-> Undef]
PaymentRequired == [kind |-> "payment", status |-> "", out |-> Undef]
Json(status, out) == [kind |-> "json", status |-> status, out |-> out]

NotBuilt == [called |-> FALSE, threw |-> FALSE, out |-> <<>>]
Built(res) == [called |-> TRUE, threw |-> res.threw, out |-> res.out]

ClientRetrying(c, arg, outcome) ==
    IF outcome.k = "transport" THEN Pending(arg)
    ELSE CASE c = "fearGreed" -> fetchFearGreed(outcome)
           [] c = "trending" -> fetchTrending(outcome)
           [] c = "topCoins" -> fetchTopCoins(outcome)
           [] c = "defi" -> fetchTopDeFi(outcome)
           [] c = "dexVolume" -> fetchDexVolume(outcome)
           [] OTHER -> fetchTokenInfo(arg, outcome)

\* What a client makes of the upstream's answer.
Client(c, arg, outcome) ==
    CASE c = "fearGreed" -> fetchFearGreed(outcome)
      [] c = "trending" -> fetchTrending(outcome)
      [] c = "topCoins" -> fetchTopCoins(outcome)
      [] c = "defi" -> fetchTopDeFi(outcome)
      [] c = "dexVolume" -> fetchDexVolume(outcome)
      [] OTHER -> fetchTokenInfo(arg, outcome)

(***************************************************************************)
(* Response bodies.  Each yields [threw, v].                               *)
(***************************************************************************)
Value(v) == [threw |-> FALSE, v |-> v]
Raise == [threw |-> TRUE, v |-> Undef]

\* trending?.coins?.slice(0, 5).map(c => ({symbol: c.item?.symbol ...})) || []
DigestTrendingSection(trending) ==
    LET coins == IF Nullish(trending) THEN Undef ELSE trending.coins IN
    IF Nullish(coins) THEN Value(<<>>)
    ELSE IF coins.k # "list" THEN Raise
    ELSE LET top == Slice(coins.items, DigestTrending) IN
         IF \E i \in 1..Len(top) : Nullish(top[i]) THEN Raise
         ELSE Value([i \in 1..Len(top) |->
                        [symbol |-> toUpperCase(top[i].symbol), name |-> top[i].name]])

\* defi?.slice(0, 5).map(p => ({name, tvl, category})) || []
DigestDeFiSection(defi) ==
    IF Nullish(defi) THEN Value(<<>>)
    ELSE LET top == Slice(defi.items, DigestDeFi) IN
         Value([i \in 1..Len(top) |->
                   [name |-> top[i].name, tvl |-> top[i].tvl,
                    category |-> top[i].category]])

\* The digest's response object (daily-alpha handler, after the fan-in).
DigestOutput(fearGreed, trending, topCoins, defi, dexVolume, signals) ==
    LET tr == DigestTrendingSection(trending)
        df == DigestDeFiSection(defi)
    IN  IF tr.threw \/ df.threw THEN Raise
        ELSE Value([
            summary |-> IF Len(signals) > 0 THEN "signals detected" ELSE "market neutral",
            nSignals |-> Len(signals),
            fearGreedIndex |-> parseInt(Or(ReadingValue(fearGreed), NumStr(DefaultScore))),
            fearGreedClass |-> Or(ReadingClass(fearGreed), Text("Unknown")),
            btcChange24h |-> PrimaryChange(topCoins),
            dexVolumeChange |-> DexChange(dexVolume),
            signals |-> signals,
            trending |-> tr.v,
            topDeFi |-> df.v])

\* new Date(parseInt(d.timestamp) * 1000).toISOString() is a RangeError on
\* an unparseable timestamp; d.value on a null reading is a TypeError.
HistoryEntryThrows(d) == Nullish(d) \/ parseInt(d.timestamp).k # "num"

Interpretation(v) ==
    IF JSLe(v, FearMax) THEN "Extreme fear often signals buying opportunities"
    ELSE IF JSGe(v, GreedMin) THEN "Extreme greed may signal market tops"
    ELSE "Market sentiment is neutral to moderate"

\* The fear-greed handler's response object: data.data on a null body and
\* data.data.map on a data field that is no array are TypeErrors.
FearGreedOutput(data) ==
    IF Nullish(data) THEN Raise
    ELSE IF ~Nullish(data.data) /\ data.data.k # "list" THEN Raise
    ELSE IF ~Nullish(data.data)
            /\ \E i \in 1..Len(data.data.items) : HistoryEntryThrows(data.data.items[i])
    THEN Raise
    ELSE LET v == parseInt(Or(ReadingValue(data), NumStr(DefaultScore))) IN
         Value([current |-> [value |-> v,
                             classification |-> Or(ReadingClass(data), Text("Unknown"))],
                history |-> IF Nullish(data.data) THEN <<>>
                            ELSE [i \in 1..Len(data.data.items) |->
                                     parseInt(data.data.items[i].value)],
                interpretation |-> Interpretation(v)])

\* data.coins?.slice(0, 10).map(coin => ({symbol: coin.item?.symbol ...})) || []
TrendingOutput(data) ==
    IF Nullish(data) THEN Raise
    ELSE IF Nullish(data.coins) THEN Value([coins |-> <<>>])
    ELSE IF data.coins.k # "list" THEN Raise
    ELSE LET top == Slice(data.coins.items, TopTrending) IN
         IF \E i \in 1..Len(top) : Nullish(top[i]) THEN Raise
         ELSE Value([coins |-> [i \in 1..Len(top) |->
                        [symbol |-> toUpperCase(top[i].symbol), name |-> top[i].name,
                         priceChange24h |-> top[i].change]]])

\* x?.toFixed(1): skipped on null and undefined, a TypeError on a string.
OptToFixedThrows(x) == ~Nullish(x) /\ ~HasToFixed(x)

DefiStatsOutput(protocols, dexVolume) ==
    IF OptToFixedThrows(dexVolume.change24h) \/ OptToFixedThrows(dexVolume.change7d)
    THEN Raise
    ELSE IF \E i \in 1..Len(protocols.items) :
                \/ OptToFixedThrows(protocols.items[i].tvlChange24h)
                \/ OptToFixedThrows(protocols.items[i].tvlChange7d)
    THEN Raise
    ELSE Value([dexVolume |-> [change24h |-> dexVolume.change24h,
                               change7d |-> dexVolume.change7d],
                topProtocols |-> [i \in 1..Len(protocols.items) |->
                    [name |-> protocols.items[i].name,
                     tvl |-> protocols.items[i].tvl,
                     change7d |-> protocols.items[i].tvlChange7d,
                     chains |-> protocols.items[i].chains]]])

Momentum(c) ==
    IF JSGt(c, 0) THEN "bullish" ELSE IF JSLt(c, -10) THEN "bearish" ELSE "neutral"

TokenOutput(data) ==
    IF OptToFixedThrows(data.athChangePercentage) THEN Raise
    ELSE Value([token |-> data,
                analysis |-> [fromATH |-> data.athChangePercentage,
                              momentum |-> Momentum(data.priceChange7d)]])

\* The catch block of the token-intel handler: err.message and the hint.
TokenFailure(err) ==
    Json("failed", [error |-> err,
                    suggestion |-> "Use CoinGecko token ID (e.g., bitcoin, ethereum)"])

(***************************************************************************)
(* Upstream payloads.                                                      *)
(* A trending entry keeps item.symbol, item.name and                       *)
(* item.data.price_change_percentage_24h.usd as symbol, name and change;   *)
(* every step of those paths is optional-chained, so a missing step reads  *)
(* as an undefined change.                                                 *)
(***************************************************************************)
Reading(value, cls, ts) ==
    [k |-> "obj", value |-> value, value_classification |-> cls, timestamp |-> ts]
FearGreedBody(data) == [k |-> "obj", data |-> data]
Coin(symbol, name, change) ==
    [k |-> "obj", symbol |-> symbol, name |-> name, change |-> change]
TrendingBody(coins) == [k |-> "obj", coins |-> coins]
Asset(change) == [k |-> "obj", price_change_percentage_24h |-> change]
RawProtocol(name, tvl, change7d) ==
    [k |-> "obj", name |-> name, category |-> "Lending", tvl |-> tvl,
     change_1d |-> Num(1), change_7d |-> change7d, chains |-> Undef]
DexBody(change) ==
    [k |-> "obj", total24h |-> Num(9), change_1d |-> change, change_7d |-> Num(1)]
TokenBody(id, athChange) ==
    [k |-> "obj", id |-> id, symbol |-> "btc", change7d |-> Num(3),
     athChange |-> athChange]

\* What each upstream may answer to a handler's call.
FearGreedBodies ==
    { FearGreedBody(List(<<Reading(NumStr(20), Text("Extreme Fear"), NumStr(1))>>)),
      FearGreedBody(List(<<Reading(NumStr(50), Text("Neutral"), NumStr(1))>>)),
      FearGreedBody(Undef),
      FearGreedBody(Obj) }
TrendingBodies ==
    { TrendingBody(List(<<Coin("pepe", "Pepe", Num(12)), Coin("wif", "dogwifhat", Num(8))>>)),
      TrendingBody(List(<<Null>>)),
      TrendingBody(Undef) }
TopCoinsBodies == { List(<<Asset(Num(-3)), Asset(Num(1))>>), Obj }
ProtocolBodies ==
    { List(<<RawProtocol("Aave", Num(2), Num(4)), RawProtocol("Lido", Num(3), Num(12))>>),
      List(<<RawProtocol("Lido", Num(3), NumStr(12))>>),
      Obj }
DexBodies == { DexBody(Num(6)), DexBody(Undef), Null }
DexOk == Http(200, DexBody(Num(6)))

Outcomes(c) ==
    CASE c = "fearGreed" -> {Transport} \cup {Http(200, b) : b \in FearGreedBodies}
      [] c = "trending" -> {Transport} \cup {Http(200, b) : b \in TrendingBodies}
      [] c = "topCoins" -> {Transport} \cup {Http(200, b) : b \in TopCoinsBodies}
      [] c = "defi" -> {Transport} \cup {Http(200, b) : b \in ProtocolBodies}
      [] c = "dexVolume" -> {Transport} \cup {Http(200, b) : b \in DexBodies}
      [] OTHER -> {Transport, BadJson, Http(404, Obj), Http(429, Obj), Http(500, Obj),
                   Http(200, Null),
                   Http(200, TokenBody("bitcoin", Num(-40))),
                   Http(200, TokenBody("bitcoin", NumStr(-40)))}

\* The source selections a digest request may carry: the field left out, or
\* a list of groups (possibly empty).
SourceSelections ==
    { Undef, List(<<>>), List(<<"feargreed">>), List(<<"coingecko">>),
      List(<<"defillama">>), List(<<"coingecko", "feargreed">>),
      List(<<"defillama", "feargreed">>), List(<<"coingecko", "defillama">>),
      List(<<"coingecko", "defillama", "feargreed">>) }

TokenChars == {"b", "B"}
RECURSIVE StringsUpTo(_)
StringsUpTo(n) ==
    IF n = 0 THEN {<<>>}
    ELSE LET shorter == StringsUpTo(n - 1) IN
         shorter \cup {Append(s, ch) : s \in {t \in shorter : Len(t) = n - 1},
                                        ch \in TokenChars}

\* The token field: left out, or a string (possibly empty).
TokenInputs == {Undef} \cup {Chars(cs) : cs \in StringsUpTo(MaxTokenLen)}

Request(op, proof, sources, token) ==
    [op |-> op, proof |-> proof, sources |-> sources, token |-> token]

Requests ==
    {Request(op, proof, Undef, Undef) :
        op \in Ops \ {"daily-alpha", "token-intel"}, proof \in BOOLEAN}
    \cup {Request("daily-alpha", proof, s, Undef) :
              proof \in BOOLEAN, s \in SourceSelections}
    \cup {Request("token-intel", proof, Undef, t) :
              proof \in BOOLEAN, t \in TokenInputs}

NoRequest == Request("none", FALSE, Undef, Undef)

(***************************************************************************)
(* The state machine.                                                      *)
(***************************************************************************)
AllUnused == [c \in Calls |-> Unused]
NoneAsked == [c \in Calls |-> NotAsked]

Init ==
    /\ pc = [r \in Reqs |-> "idle"]
    /\ req = [r \in Reqs |-> NoRequest]
    /\ raw = [r \in Reqs |-> NoneAsked]
    /\ slot = [r \in Reqs |-> AllUnused]
    /\ sig = [r \in Reqs |-> NotBuilt]
    /\ resp = [r \in Reqs |-> NoResp]

\* A request arrives on an entrypoint: paid paths pass the payment
\* middleware first, free paths go straight to their handler.
Arrive(r, q) ==
    /\ pc[r] = "idle"
    /\ req' = [req EXCEPT ![r] = q]
    /\ pc' = [pc EXCEPT ![r] = IF q.op \in PaidOps THEN "gate" ELSE "handler"]
    /\ UNCHANGED <<raw, slot, sig, resp>>

Receive(r) == \E q \in Requests : Arrive(r, q)

\* The payment middleware lets a request with a valid proof through.
PaymentAccept(r) ==
    /\ pc[r] = "gate"
    /\ req[r].proof
    /\ pc' = [pc EXCEPT ![r] = "handler"]
    /\ UNCHANGED <<req, raw, slot, sig, resp>>

\* ... and answers any other request itself.
PaymentReject(r) ==
    /\ pc[r] = "gate"
    /\ ~req[r].proof
    /\ pc' = [pc EXCEPT ![r] = "done"]
    /\ resp' = [resp EXCEPT ![r] = PaymentRequired]
    /\ UNCHANGED <<req, raw, slot, sig>>

\* ping: no source call.
Ping(r) ==
    /\ pc[r] = "handler"
    /\ req[r].op = "ping"
    /\ pc' = [pc EXCEPT ![r] = "done"]
    /\ resp' = [resp EXCEPT ![r] = Json("succeeded", [status |-> "alive"])]
    /\ UNCHANGED <<req, raw, slot, sig>>

\* daily-alpha: the five entries of the Promise.all array, a client call for
\* each entry of a selected group and null for the others.
DigestStart(r) ==
    /\ pc[r] = "handler"
    /\ req[r].op = "daily-alpha"
    /\ LET sources == SelectedSources(req[r].sources) IN
       slot' = [slot EXCEPT ![r] = [c \in Calls |->
                   IF c \notin DigestCalls THEN Unused
                   ELSE IF Includes(sources, GroupOf(c)) THEN Pending(NoId)
                   ELSE Resolved(Null)]]
    /\ pc' = [pc EXCEPT ![r] = "await"]
    /\ UNCHANGED <<req, raw, sig, resp>>

\* fear-greed, trending, defi-stats: the calls each handler awaits.
CallsOf(op) ==
    CASE op = "fear-greed" -> {"fearGreed"}
      [] op = "trending" -> {"trending"}
      [] op = "defi-stats" -> {"defi", "dexVolume"}
      [] op = "daily-alpha" -> DigestCalls
      [] op = "token-intel" -> {"token"}
      [] OTHER -> {}

SimpleStart(r) ==
    /\ pc[r] = "handler"
    /\ req[r].op \in {"fear-greed", "trending", "defi-stats"}
    /\ slot' = [slot EXCEPT ![r] = [c \in Calls |->
                   IF c \in CallsOf(req[r].op) THEN Pending(NoId) ELSE Unused]]
    /\ pc' = [pc EXCEPT ![r] = "await"]
    /\ UNCHANGED <<req, raw, sig, resp>>

\* token-intel: fetchTokenInfo(token.toLowerCase())
TokenStart(r) ==
    /\ pc[r] = "handler"
    /\ req[r].op = "token-intel"
    /\ slot' = [slot EXCEPT ![r] = [c \in Calls |->
                   IF c = "token" THEN Pending(LookupId(req[r].token)) ELSE Unused]]
    /\ pc' = [pc EXCEPT ![r] = "await"]
    /\ UNCHANGED <<req, raw, sig, resp>>

\* An upstream answers a call that is in flight: its client resolves or
\* rejects.  The call runs on whether or not its handler has gone.
Deliver(r, c, outcome) ==
    /\ slot[r][c].k = "pending"
    /\ raw' = [raw EXCEPT ![r][c] = outcome]
    /\ slot' = [slot EXCEPT ![r][c] = Client(c, slot[r][c].arg, outcome)]
    /\ UNCHANGED <<pc, req, sig, resp>>

Settle(r, c) == \E outcome \in Outcomes(c) : Deliver(r, c, outcome)

AllResolved(r) == \A c \in CallsOf(req[r].op) : slot[r][c].k = "resolved"
SomeRejected(r) == \E c \in CallsOf(req[r].op) : slot[r][c].k = "rejected"

\* await fetchX() / await Promise.all([...]) with no try around it: the
\* first rejection ends the handler, whatever else is still in flight.
AwaitRejected(r) ==
    /\ pc[r] = "await"
    /\ req[r].op \in {"fear-greed", "trending", "defi-stats", "daily-alpha"}
    /\ SomeRejected(r)
    /\ pc' = [pc EXCEPT ![r] = "done"]
    /\ resp' = [resp EXCEPT ![r] = InternalError]
    /\ UNCHANGED <<req, raw, slot, sig>>

\* daily-alpha after the fan-in: buildAlphaSignals, then the response.
DigestRespond(r) ==
    /\ pc[r] = "await"
    /\ req[r].op = "daily-alpha"
    /\ AllResolved(r)
    /\ LET fearGreed == slot[r]["fearGreed"].v
           trending == slot[r]["trending"].v
           topCoins == slot[r]["topCoins"].v
           defi == slot[r]["defi"].v
           dexVolume == slot[r]["dexVolume"].v
           built == buildAlphaSignals(fearGreed, trending, topCoins, defi, dexVolume)
           out == DigestOutput(fearGreed, trending, topCoins, defi, dexVolume, built.out)
       IN  /\ sig' = [sig EXCEPT ![r] = Built(built)]
           /\ resp' = [resp EXCEPT ![r] =
                          IF built.threw \/ out.threw THEN InternalError
                          ELSE Json("succeeded", out.v)]
    /\ pc' = [pc EXCEPT ![r] = "done"]
    /\ UNCHANGED <<req, raw, slot>>

Answer(out) == IF out.threw THEN InternalError ELSE Json("succeeded", out.v)

FearGreedRespond(r) ==
    /\ pc[r] = "await"
    /\ req[r].op = "fear-greed"
    /\ AllResolved(r)
    /\ resp' = [resp EXCEPT ![r] = Answer(FearGreedOutput(slot[r]["fearGreed"].v))]
    /\ pc' = [pc EXCEPT ![r] = "done"]
    /\ UNCHANGED <<req, raw, slot, sig>>

TrendingRespond(r) ==
    /\ pc[r] = "await"
    /\ req[r].op = "trending"
    /\ AllResolved(r)
    /\ resp' = [resp EXCEPT ![r] = Answer(TrendingOutput(slot[r]["trending"].v))]
    /\ pc' = [pc EXCEPT ![r] = "done"]
    /\ UNCHANGED <<req, raw, slot, sig>>

DefiStatsRespond(r) ==
    /\ pc[r] = "await"
    /\ req[r].op = "defi-stats"
    /\ AllResolved(r)
    /\ resp' = [resp EXCEPT ![r] =
                   Answer(DefiStatsOutput(slot[r]["defi"].v, slot[r]["dexVolume"].v))]
    /\ pc' = [pc EXCEPT ![r] = "done"]
    /\ UNCHANGED <<req, raw, slot, sig>>

\* token-intel: the try block answers 'succeeded', the catch block 'failed'
\* with the message of whatever was thrown.
TokenRespond(r) ==
    /\ pc[r] = "await"
    /\ req[r].op = "token-intel"
    /\ slot[r]["token"].k \in {"resolved", "rejected"}
    /\ resp' = [resp EXCEPT ![r] =
                   IF slot[r]["token"].k = "rejected"
                   THEN TokenFailure(slot[r]["token"].err)
                   ELSE LET out == TokenOutput(slot[r]["token"].v) IN
                        IF out.threw THEN TokenFailure([kind |-> "type", id |-> NoId])
                        ELSE Json("succeeded", out.v)]
    /\ pc' = [pc EXCEPT ![r] = "done"]
    /\ UNCHANGED <<req, raw, slot, sig>>

Next ==
    \E r \in Reqs :
        \/ Receive(r)
        \/ PaymentAccept(r)
        \/ PaymentReject(r)
        \/ Ping(r)
        \/ DigestStart(r)
        \/ SimpleStart(r)
        \/ TokenStart(r)
        \/ \E c \in Calls : Settle(r, c)
        \/ AwaitRejected(r)
        \/ DigestRespond(r)
        \/ FearGreedRespond(r)
        \/ TrendingRespond(r)
        \/ DefiStatsRespond(r)
        \/ TokenRespond(r)

Spec == Init /\ [][Next]_vars

\* A step of r's handler or of the gate: once such a continuation is ready
\* the event loop runs it.  An upstream, by contrast, may never answer, and
\* a client may never send a request.
HandlerStep(r) ==
    \/ PaymentAccept(r)
    \/ PaymentReject(r)
    \/ Ping(r)
    \/ DigestStart(r)
    \/ SimpleStart(r)
    \/ TokenStart(r)
    \/ AwaitRejected(r)
    \/ DigestRespond(r)
    \/ FearGreedRespond(r)
    \/ TrendingRespond(r)
    \/ DefiStatsRespond(r)
    \/ TokenRespond(r)

SpecLive == Spec /\ \A r \in Reqs : WF_vars(HandlerStep(r))

(***************************************************************************)
(* Two requests in flight at once: their handlers interleave at every      *)
(* await.  The requests and the upstream answers are drawn from small sets *)
(* in which the two requests can be given different data.                  *)
(***************************************************************************)
Pair == {"r1", "r2"}

PairRequests ==
    { Request("ping", FALSE, Undef, Undef),
      Request("fear-greed", FALSE, Undef, Undef),
      Request("trending", TRUE, Undef, Undef),
      Request("defi-stats", TRUE, Undef, Undef),
      Request("token-intel", TRUE, Undef, Undef),
      Request("daily-alpha", FALSE, Undef, Undef),
      Request("daily-alpha", TRUE, List(<<"defillama", "feargreed">>), Undef),
      Request("daily-alpha", TRUE, List(<<"coingecko", "defillama">>), Undef) }

PairOutcomes(c) ==
    CASE c = "fearGreed" ->
            { Http(200, FearGreedBody(List(<<Reading(NumStr(20), Text("Extreme Fear"),
                                                     NumStr(1))>>))),
              Http(200, FearGreedBody(List(<<Reading(NumStr(80), Text("Extreme Greed"),
                                                     NumStr(1))>>))) }
      [] c = "trending" ->
            { Http(200, TrendingBody(List(<<Coin("pepe", "Pepe", Num(12))>>))),
              Http(200, TrendingBody(List(<<Coin("wif", "dogwifhat", Num(15))>>))) }
      [] c = "topCoins" -> { Http(200, List(<<Asset(Num(-3)), Asset(Num(1))>>)) }
      [] c = "defi" ->
            { Http(200, List(<<RawProtocol("Lido", Num(3), Num(12))>>)),
              Http(200, List(<<RawProtocol("Aave", Num(2), Num(14))>>)) }
      [] c = "dexVolume" -> { DexOk, Transport }
      [] OTHER -> { Http(404, Obj), Http(200, TokenBody("bitcoin", Num(-40))) }

InitPair ==
    /\ pc = [r \in Pair |-> "idle"]
    /\ req = [r \in Pair |-> NoRequest]
    /\ raw = [r \in Pair |-> NoneAsked]
    /\ slot = [r \in Pair |-> AllUnused]
    /\ sig = [r \in Pair |-> NotBuilt]
    /\ resp = [r \in Pair |-> NoResp]

NextPair ==
    \E r \in Pair :
        \/ \E q \in PairRequests : Arrive(r, q)
        \/ PaymentAccept(r)
        \/ PaymentReject(r)
        \/ Ping(r)
        \/ DigestStart(r)
        \/ SimpleStart(r)
        \/ TokenStart(r)
        \/ \E c \in Calls : \E outcome \in PairOutcomes(c) : Deliver(r, c, outcome)
        \/ AwaitRejected(r)
        \/ DigestRespond(r)
        \/ FearGreedRespond(r)
        \/ TrendingRespond(r)
        \/ DefiStatsRespond(r)
        \/ TokenRespond(r)

SpecPair == InitPair /\ [][NextPair]_vars

(***************************************************************************)
(* The signal engine on its own: the handler stands at the fan-in with     *)
(* the five values buildAlphaSignals is called on, drawn from the sets     *)
(* below, and DigestRespond applies the function.                          *)
(***************************************************************************)
Symbols == <<"pepe", "wif", "bonk", "mog", "floki">>
ProtocolNames == <<"Lido", "Aave", "Maker", "Uniswap", "Curve">>

\* fetchDexVolume's normalized summary.
DexSummary(change) ==
    [k |-> "obj", total24h |-> Num(9), change24h |-> change, change7d |-> Num(1)]

SentimentFeeds ==
    {Null, FearGreedBody(Undef), FearGreedBody(Obj), FearGreedBody(List(<<>>)),
     FearGreedBody(List(<<Null>>))}
    \cup {FearGreedBody(List(<<Reading(NumStr(s), cls, NumStr(1))>>)) :
              s \in 0..MaxScore, cls \in {Text("Fear"), Undef}}
    \cup {FearGreedBody(List(<<Reading(v, Text("Fear"), NumStr(1))>>)) :
              v \in {Undef, Garbage, Text(""), Num(0), Num(20)}}

\* A well-formed entry carries a number or no change at all.
CoinChanges == {Num(10), Num(12), Undef}

RECURSIVE CoinListsOfLen(_)
CoinListsOfLen(n) ==
    IF n = 0 THEN {<<>>}
    ELSE {Append(cs, Coin(Symbols[n], Symbols[n], ch)) :
             cs \in CoinListsOfLen(n - 1), ch \in CoinChanges}

\* Malformed feeds: a null entry inside and outside the first three, and a
\* change written as a string.
MalformedCoinLists ==
    { <<Null>>,
      <<Coin("pepe", "pepe", Num(12)), Null>>,
      <<Coin("pepe", "pepe", Num(12)), Coin("wif", "wif", Num(8)),
        Coin("bonk", "bonk", Num(12)), Null>>,
      <<Coin("pepe", "pepe", NumStr(12))>>,
      <<Coin("pepe", "pepe", NumStr(8))>>,
      <<Coin("pepe", "pepe", Num(12)), Coin("wif", "wif", Num(8)),
        Coin("bonk", "bonk", Num(12)), Coin("mog", "mog", NumStr(12))>> }

\* A feed of five assets with 24h changes 12, 8, 15, 20 and 5.
ExampleCoinLists ==
    { <<Coin("pepe", "pepe", Num(12)), Coin("wif", "wif", Num(8)),
        Coin("bonk", "bonk", Num(15)), Coin("mog", "mog", Num(20)),
        Coin("floki", "floki", Num(5))>> }

TrendingFeeds ==
    {Null, TrendingBody(Undef), TrendingBody(Obj)}
    \cup {TrendingBody(List(cs)) :
              cs \in MalformedCoinLists \cup ExampleCoinLists
                     \cup UNION {CoinListsOfLen(n) : n \in 0..MaxCoins}}

MarketFeeds ==
    {Null, Obj, List(<<>>), List(<<Null>>)}
    \cup {List(<<Asset(c), Asset(Num(1))>>) :
              c \in {Num(-3), Num(-2), Num(-1), Undef, NumStr(-3)}}

DexSummaries ==
    {Null} \cup {DexSummary(c) : c \in {Num(4), Num(5), Num(6), Undef, NumStr(6)}}

RECURSIVE RawProtocolListsOfLen(_)
RawProtocolListsOfLen(n) ==
    IF n = 0 THEN {<<>>}
    ELSE {Append(ps, RawProtocol(ProtocolNames[n], Num(tvl), ch)) :
             ps \in RawProtocolListsOfLen(n - 1),
             tvl \in {1, 2},
             ch \in {Num(10), Num(12)}}

\* Raw lists with a 7-day change that is missing or written as a string.
OddProtocolLists ==
    { <<RawProtocol("Lido", Num(2), Undef)>>,
      <<RawProtocol("Lido", Num(2), NumStr(12))>>,
      <<RawProtocol("Lido", Num(2), NumStr(8))>>,
      <<RawProtocol("Lido", Num(1), Num(12)), RawProtocol("Aave", Num(2), Undef),
        RawProtocol("Maker", Num(3), Num(12)), RawProtocol("Curve", Num(1), NumStr(12))>> }

\* The protocol lists fetchTopDeFi hands to the handler.
ProtocolLists ==
    {Null}
    \cup {fetchTopDeFi(Http(200, List(ps))).v :
              ps \in OddProtocolLists
                     \cup UNION {RawProtocolListsOfLen(n) : n \in 0..MaxProtocols}}

Args(fg, tr, tc, df, dx) ==
    [fearGreed |-> fg, trending |-> tr, topCoins |-> tc, defi |-> df, dexVolume |-> dx]

\* Feeds on which every rule fires, and feeds on which none does.
Loud ==
    Args(FearGreedBody(List(<<Reading(NumStr(10), Text("Extreme Fear"), NumStr(1))>>)),
         TrendingBody(List(<<Coin("pepe", "pepe", Num(12)), Coin("wif", "wif", Num(12)),
                             Coin("bonk", "bonk", Num(12))>>)),
         List(<<Asset(Num(-3)), Asset(Num(1))>>),
         fetchTopDeFi(Http(200, List(<<RawProtocol("Lido", Num(3), Num(12)),
                                       RawProtocol("Aave", Num(2), Num(12)),
                                       RawProtocol("Maker", Num(1), Num(12))>>))).v,
         DexSummary(Num(6)))
Quiet ==
    Args(FearGreedBody(List(<<Reading(NumStr(50), Text("Neutral"), NumStr(1))>>)),
         TrendingBody(List(<<>>)), List(<<>>), List(<<>>), DexSummary(Num(0)))

EngineInputs ==
    \* every combination of absent and present inputs
    {Args(fg, tr, tc, df, dx) :
        fg \in {Null, Loud.fearGreed}, tr \in {Null, Loud.trending},
        tc \in {Null, Loud.topCoins}, df \in {Null, Loud.defi},
        dx \in {Null, Loud.dexVolume}}
    \* each input over its whole set, beside loud and quiet neighbours
    \cup {[rest EXCEPT !.fearGreed = fg] : fg \in SentimentFeeds, rest \in {Loud, Quiet}}
    \cup {[rest EXCEPT !.trending = tr] : tr \in TrendingFeeds, rest \in {Loud, Quiet}}
    \cup {[rest EXCEPT !.topCoins = tc, !.dexVolume = dx] :
              tc \in MarketFeeds, dx \in DexSummaries, rest \in {Loud, Quiet}}
    \cup {[rest EXCEPT !.defi = df] : df \in ProtocolLists, rest \in {Loud, Quiet}}

InitSignals ==
    /\ pc = [r \in Reqs |-> "await"]
    /\ req = [r \in Reqs |-> Request("daily-alpha", TRUE, Undef, Undef)]
    /\ raw = [r \in Reqs |-> NoneAsked]
    /\ \E a \in EngineInputs :
          slot = [r \in Reqs |-> [c \in Calls |->
                     IF c \in DigestCalls THEN Resolved(a[c]) ELSE Unused]]
    /\ sig = [r \in Reqs |-> NotBuilt]
    /\ resp = [r \in Reqs |-> NoResp]

NextSignals == \E r \in Reqs : DigestRespond(r)

SpecSignals == InitSignals /\ [][NextSignals]_vars

(***************************************************************************)
(* fetchTopDeFi on its own: a defi-stats request stands at its await with  *)
(* the DEX summary in hand, the protocol upstream answers with a raw list  *)
(* drawn from the set below, and the handler responds.                     *)
(***************************************************************************)
ChainNames ==
    <<"Ethereum", "Arbitrum", "Base", "Optimism", "Polygon", "Solana", "BSC", "Tron">>

\* The i-th entry of a raw list: its tvl walks through lo .. lo + p - 1 in
\* steps of m from offset o (a value below zero also shows as null or as a
\* missing field), its chains field holds 0 to 8 names or is missing.
RawTvl(v, i) ==
    IF v >= 0 THEN Num(v)
    ELSE CASE i % 3 = 0 -> Null
           [] i % 3 = 1 -> Undef
           [] OTHER -> Num(v)

RawChains(n) == IF n > Len(ChainNames) THEN Undef ELSE List(SubSeq(ChainNames, 1, n))

RawEntry(i, m, o, p, lo) ==
    [RawProtocol(ToString(i), RawTvl(((i * m + o) % p) + lo, i), Num(i))
        EXCEPT !.chains = RawChains((i + o) % (Len(ChainNames) + 2))]

RawProtocolFeeds ==
    {[i \in 1..n |-> RawEntry(i, m, o, p, lo)] :
        n \in 0..MaxRaw, m \in 1..2, o \in 0..2, p \in {3, 7, 13}, lo \in {-1, 1}}

InitDeFi ==
    /\ pc = [r \in Reqs |-> "await"]
    /\ req = [r \in Reqs |-> Request("defi-stats", TRUE, Undef, Undef)]
    /\ raw = [r \in Reqs |-> [NoneAsked EXCEPT !["dexVolume"] = DexOk]]
    /\ slot = [r \in Reqs |-> [c \in Calls |->
                  CASE c = "defi" -> Pending(NoId)
                    [] c = "dexVolume" -> fetchDexVolume(DexOk)
                    [] OTHER -> Unused]]
    /\ sig = [r \in Reqs |-> NotBuilt]
    /\ resp = [r \in Reqs |-> NoResp]

NextDeFi ==
    \E r \in Reqs :
        \/ \E ps \in RawProtocolFeeds : Deliver(r, "defi", Http(200, List(ps)))
        \/ DefiStatsRespond(r)

SpecDeFi == InitDeFi /\ [][NextDeFi]_vars

(***************************************************************************)
(* Properties of fetchTopDeFi (checked under SpecDeFi).                    *)
(***************************************************************************)
\* The raw list the protocol upstream sent r, and what fetchTopDeFi made of it.
RawList(r) == raw[r]["defi"].body.items
TopList(r) == slot[r]["defi"].v.items
Normalized(r) == raw[r]["defi"].k = "http" /\ slot[r]["defi"].k = "resolved"

Positive(p) == p.tvl.k = "num" /\ p.tvl.n > 0
IsPrefix(xs, ys) == Len(xs) <= Len(ys) /\ xs = SubSeq(ys, 1, Len(xs))

\* C13: fetchTopDeFi's result has at most 10 entries, each with tvl > 0
\* (entries with zero, negative, null or missing tvl are discarded), in
\* non-increasing tvl order; they are the 10 largest positive entries of
\* the raw list (all of them when there are fewer), and each entry's chain
\* list is the first 5 at most of the raw entry's chains.
C13_TopDeFiNormalized ==
    \A r \in Reqs :
        Normalized(r) =>
            LET in == RawList(r)
                out == TopList(r)
                src(j) == CHOOSE i \in DOMAIN in : in[i].name = out[j].name
                kept == {src(j) : j \in DOMAIN out}
                positive == {i \in DOMAIN in : Positive(in[i])}
            IN  /\ Len(out) <= 10
                /\ \A j \in DOMAIN out : Positive(out[j])
                /\ \A j, k \in DOMAIN out : j < k => out[j].tvl.n >= out[k].tvl.n
                /\ \A j \in DOMAIN out :
                      /\ \E i \in DOMAIN in : in[i].name = out[j].name
                      /\ out[j].tvl = in[src(j)].tvl
                      /\ out[j].tvlChange7d = in[src(j)].change_7d
                /\ kept \subseteq positive
                /\ Cardinality(kept) = Len(out)
                /\ Len(out) = Min(10, Cardinality(positive))
                /\ \A i \in positive \ kept, j \in DOMAIN out : in[i].tvl.n <= out[j].tvl.n
                /\ \A j \in DOMAIN out :
                      /\ out[j].chains.k = "list"
                      /\ Len(out[j].chains.items) <= 5
                      /\ \/ Nullish(in[src(j)].chains) /\ out[j].chains.items = <<>>
                         \/ /\ ~Nullish(in[src(j)].chains)
                            /\ IsPrefix(out[j].chains.items, in[src(j)].chains.items)
                            /\ Len(out[j].chains.items) =
                                   Min(5, Len(in[src(j)].chains.items))

\* Reached: a raw list with more than 10 positive entries and one that is
\* not positive gives 10 entries, one of them with 8 chains cut to 5.
C13_Witness ==
    \E r \in Reqs :
        /\ Normalized(r)
        /\ Cardinality({i \in DOMAIN RawList(r) : Positive(RawList(r)[i])}) > 10
        /\ \E i \in DOMAIN RawList(r) : ~Positive(RawList(r)[i])
        /\ Len(TopList(r)) = 10
        /\ \E j \in DOMAIN TopList(r), i \in DOMAIN RawList(r) :
              /\ RawList(r)[i].name = TopList(r)[j].name
              /\ ~Nullish(RawList(r)[i].chains)
              /\ Len(RawList(r)[i].chains.items) = 8
              /\ Len(TopList(r)[j].chains.items) = 5

(***************************************************************************)
(* Properties of the signal engine (checked under SpecSignals).            *)
(***************************************************************************)
\* buildAlphaSignals was called for r and returned its list.
Returned(r) == sig[r].called /\ ~sig[r].threw
Arg(r, c) == slot[r][c].v

OfType(sigs, type) == SelectSeq(sigs, LAMBDA x : x.type = type)

\* The first reading of r's sentiment feed carries the score as the feed
\* writes it, a string of decimal digits.
HasScore(r) ==
    /\ ~Nullish(Arg(r, "fearGreed"))
    /\ Arg(r, "fearGreed").data.k = "list"
    /\ Len(Arg(r, "fearGreed").data.items) > 0
    /\ ~Nullish(Arg(r, "fearGreed").data.items[1])
    /\ Arg(r, "fearGreed").data.items[1].value.k = "numstr"
    /\ Arg(r, "fearGreed").data.items[1].value.n \in 0..MaxScore
Score(r) == Arg(r, "fearGreed").data.items[1].value.n

\* C1: for every score s in 0..100, the returned list holds exactly one
\* sentiment signal titled "... Buy Zone" when s <= 25 (confidence high iff
\* s <= 15, else medium), exactly one titled "... Caution Zone" when s >= 75
\* (high iff s >= 85, else medium), and no sentiment signal when 25 < s < 75.
C1_SentimentByScore ==
    \A r \in Reqs :
        (Returned(r) /\ HasScore(r)) =>
            LET s == Score(r)
                sent == OfType(sig[r].out, "sentiment")
            IN  /\ (s <= 25) =>
                       /\ Len(sent) = 1
                       /\ sent[1].title.tail = "Potential Buy Zone"
                       /\ sent[1].title.num = s
                       /\ sent[1].confidence = (IF s <= 15 THEN "high" ELSE "medium")
                /\ (s >= 75) =>
                       /\ Len(sent) = 1
                       /\ sent[1].title.tail = "Caution Zone"
                       /\ sent[1].title.num = s
                       /\ sent[1].confidence = (IF s >= 85 THEN "high" ELSE "medium")
                /\ (s > 25 /\ s < 75) => Len(sent) = 0

\* Reached: score 85, the lowest score whose caution signal is 'high'.
C1_Witness ==
    \E r \in Reqs :
        /\ Returned(r) /\ HasScore(r) /\ Score(r) = 85
        /\ Len(OfType(sig[r].out, "sentiment")) = 1
        /\ OfType(sig[r].out, "sentiment")[1].confidence = "high"
        /\ OfType(sig[r].out, "sentiment")[1].title.tail = "Caution Zone"

\* A number or an absent value, the only shapes a well-formed feed gives a
\* numeric field.
PlainNumber(x) == x.k \in {"num", "undef"}

WellFormedArgs(r) ==
    /\ \/ Nullish(Arg(r, "fearGreed"))
       \/ /\ Arg(r, "fearGreed").data.k = "list"
          /\ \A i \in DOMAIN Arg(r, "fearGreed").data.items :
                /\ ~Nullish(Arg(r, "fearGreed").data.items[i])
                /\ Arg(r, "fearGreed").data.items[i].value.k = "numstr"
    /\ \/ Nullish(Arg(r, "trending"))
       \/ /\ Arg(r, "trending").coins.k = "list"
          /\ \A i \in DOMAIN Arg(r, "trending").coins.items :
                /\ ~Nullish(Arg(r, "trending").coins.items[i])
                /\ PlainNumber(Arg(r, "trending").coins.items[i].change)
    /\ \/ Nullish(Arg(r, "topCoins"))
       \/ /\ Arg(r, "topCoins").k = "list"
          /\ \A i \in DOMAIN Arg(r, "topCoins").items :
                /\ ~Nullish(Arg(r, "topCoins").items[i])
                /\ PlainNumber(Arg(r, "topCoins").items[i].price_change_percentage_24h)
    /\ \/ Nullish(Arg(r, "defi"))
       \/ \A i \in DOMAIN Arg(r, "defi").items :
             PlainNumber(Arg(r, "defi").items[i].tvlChange7d)
    /\ \/ Nullish(Arg(r, "dexVolume"))
       \/ PlainNumber(Arg(r, "dexVolume").change24h)

\* C2: buildAlphaSignals never fails: whichever of its five inputs are
\* absent (null), a call on well-formed inputs returns a list.
C2_NeverFails ==
    \A r \in Reqs : (sig[r].called /\ WellFormedArgs(r)) => ~sig[r].threw

Rank(type) ==
    CASE type = "sentiment" -> 1
      [] type = "whale" -> 2
      [] type = "narrative" -> 3
      [] OTHER -> 4

\* Where the trending feed lists the asset of a narrative signal, and where
\* the protocol list names the asset of a protocol signal.
FeedIndex(r, asset) ==
    CHOOSE i \in DOMAIN Arg(r, "trending").coins.items :
        /\ ~Nullish(Arg(r, "trending").coins.items[i])
        /\ toUpperCase(Arg(r, "trending").coins.items[i].symbol) = asset
ListIndex(r, asset) ==
    CHOOSE i \in DOMAIN Arg(r, "defi").items : Arg(r, "defi").items[i].name = asset

\* C9: every returned list is ordered sentiment, whale, narrative, protocol,
\* with at most 1, 1, 3 and 3 signals of each kind (so at most 8 in all);
\* the narrative signals follow the trending feed's order and the protocol
\* signals the protocol list's order.
C9_SignalOrder ==
    \A r \in Reqs :
        Returned(r) =>
            LET out == sig[r].out IN
            /\ \A i, j \in DOMAIN out : i < j => Rank(out[i].type) <= Rank(out[j].type)
            /\ \A i \in DOMAIN out :
                  out[i].type \in {"sentiment", "whale", "narrative", "protocol"}
            /\ Len(OfType(out, "sentiment")) <= 1
            /\ Len(OfType(out, "whale")) <= 1
            /\ Len(OfType(out, "narrative")) <= 3
            /\ Len(OfType(out, "protocol")) <= 3
            /\ Len(out) <= 8
            /\ \A i, j \in DOMAIN out :
                  (i < j /\ out[i].type = "narrative" /\ out[j].type = "narrative")
                      => FeedIndex(r, out[i].asset) < FeedIndex(r, out[j].asset)
            /\ \A i, j \in DOMAIN out :
                  (i < j /\ out[i].type = "protocol" /\ out[j].type = "protocol")
                      => ListIndex(r, out[i].asset) < ListIndex(r, out[j].asset)

\* Reached: a list of all 8 signals.
C9_Witness ==
    \E r \in Reqs :
        /\ Returned(r)
        /\ Len(sig[r].out) = 8
        /\ sig[r].out[1].type = "sentiment" /\ sig[r].out[2].type = "whale"
        /\ sig[r].out[5].type = "narrative" /\ sig[r].out[6].type = "protocol"

\* The DEX 24h volume change and the primary asset's 24h price change as
\* numbers (absent when the summary, the list or the field is missing).
VolumeChange(r) ==
    IF Nullish(Arg(r, "dexVolume")) THEN NaN
    ELSE ToNumber(Arg(r, "dexVolume").change24h)
PriceChange(r) ==
    IF Nullish(Arg(r, "topCoins")) \/ Arg(r, "topCoins").k # "list" THEN NaN
    ELSE IF Len(Arg(r, "topCoins").items) = 0 THEN NaN
    ELSE IF Nullish(Arg(r, "topCoins").items[1]) THEN NaN
    ELSE IF Nullish(Arg(r, "topCoins").items[1].price_change_percentage_24h) THEN NaN
    ELSE ToNumber(Arg(r, "topCoins").items[1].price_change_percentage_24h)

Diverges(r) ==
    /\ VolumeChange(r).k = "num" /\ VolumeChange(r).n > 5
    /\ PriceChange(r).k = "num" /\ PriceChange(r).n < -2

\* C10: a returned list holds exactly one whale signal (confidence medium)
\* when the DEX volume change is > 5 and the primary asset's price change is
\* < -2, and none otherwise: none at volume change 5, at price change -2, or
\* with the DEX summary or the market list absent.
C10_WhaleIffDivergence ==
    \A r \in Reqs :
        Returned(r) =>
            LET whale == OfType(sig[r].out, "whale") IN
            /\ Len(whale) = (IF Diverges(r) THEN 1 ELSE 0)
            /\ \A i \in DOMAIN whale : whale[i].confidence = "medium"
            /\ Nullish(Arg(r, "dexVolume")) => Len(whale) = 0
            /\ Nullish(Arg(r, "topCoins")) => Len(whale) = 0

\* Reached: volume change 6 and price change -3 give the one whale signal,
\* next to a sentiment signal.
C10_Witness ==
    \E r \in Reqs :
        /\ Returned(r)
        /\ VolumeChange(r) = Num(6) /\ PriceChange(r) = Num(-3)
        /\ Len(OfType(sig[r].out, "whale")) = 1
        /\ OfType(sig[r].out, "whale")[1].confidence = "medium"

\* The trending feed's entries (none when the feed or its list is absent).
TrendingCoins(r) ==
    IF Nullish(Arg(r, "trending")) THEN <<>>
    ELSE IF Arg(r, "trending").coins.k # "list" THEN <<>>
    ELSE Arg(r, "trending").coins.items

\* The positions of xs, in order, that lie in the first n and satisfy Q.
Positions(xs, n, Q(_)) ==
    SelectSeq([i \in 1..Len(xs) |-> i], LAMBDA i : i <= n /\ Q(xs[i]))

RisesOver10(coin) ==
    /\ ~Nullish(coin)
    /\ coin.change.k \in {"num", "numstr"}
    /\ coin.change.n > 10

\* C11: the narrative signals of a returned list are exactly those of the
\* assets among the first 3 of the trending feed whose 24h change is > 10,
\* in feed order: an asset of the first 3 with change <= 10 or no change
\* emits nothing, and an asset at index 3 or later never emits.
C11_NarrativeFirstThree ==
    \A r \in Reqs :
        Returned(r) =>
            LET coins == TrendingCoins(r)
                at == Positions(coins, 3, RisesOver10)
                narr == OfType(sig[r].out, "narrative")
            IN  /\ Len(narr) = Len(at)
                /\ \A n \in DOMAIN narr :
                      /\ narr[n].asset = toUpperCase(coins[at[n]].symbol)
                      /\ narr[n].title.head = coins[at[n]].name
                      /\ narr[n].title.num = coins[at[n]].change.n
                      /\ narr[n].confidence = "medium"

\* Reached: changes 12, 8, 15, 20, 5 give signals for indices 0 and 2 only.
C11_Witness ==
    \E r \in Reqs :
        /\ Returned(r)
        /\ Len(TrendingCoins(r)) = 5
        /\ [i \in 1..5 |-> TrendingCoins(r)[i].change] =
               <<Num(12), Num(8), Num(15), Num(20), Num(5)>>
        /\ [n \in 1..2 |-> OfType(sig[r].out, "narrative")[n].asset] = <<"PEPE", "BONK">>
        /\ Len(OfType(sig[r].out, "narrative")) = 2

\* The normalized protocol list (none when it is absent).
Protocols(r) == IF Nullish(Arg(r, "defi")) THEN <<>> ELSE Arg(r, "defi").items

GrowsOver10(protocol) ==
    /\ protocol.tvlChange7d.k \in {"num", "numstr"}
    /\ protocol.tvlChange7d.n > 10

\* C12: the protocol signals of a returned list are exactly those of the
\* protocols among the first 3 of the normalized list (the 3 largest by
\* TVL) whose 7-day TVL change is > 10, in list order and with confidence
\* medium: a change of exactly 10, or a place at index 3 or later, emits
\* nothing.
C12_ProtocolFirstThree ==
    \A r \in Reqs :
        Returned(r) =>
            LET ps == Protocols(r)
                at == Positions(ps, 3, GrowsOver10)
                prot == OfType(sig[r].out, "protocol")
            IN  /\ Len(prot) = Len(at)
                /\ \A n \in DOMAIN prot :
                      /\ prot[n].asset = ps[at[n]].name
                      /\ prot[n].title.num = ps[at[n]].tvlChange7d.n
                      /\ prot[n].confidence = "medium"
                /\ \A i, j \in DOMAIN ps : (i <= 3 /\ j > 3) => ps[i].tvl.n >= ps[j].tvl.n

\* Reached: four protocols, the second with change exactly 10 and the
\* fourth with change 12: only the first and the third emit.
C12_Witness ==
    \E r \in Reqs :
        /\ Returned(r)
        /\ Len(Protocols(r)) = 4
        /\ [i \in 1..4 |-> Protocols(r)[i].tvlChange7d] =
               <<Num(12), Num(10), Num(12), Num(12)>>
        /\ Len(OfType(sig[r].out, "protocol")) = 2
        /\ OfType(sig[r].out, "protocol")[1].asset = Protocols(r)[1].name
        /\ OfType(sig[r].out, "protocol")[2].asset = Protocols(r)[3].name

(***************************************************************************)
(* Properties of the handlers (checked under Spec).                        *)
(***************************************************************************)
\* The handler of r issued call c.
Issued(r, c) == slot[r][c].k = "pending" \/ raw[r][c].k # "none"
Started(r) == pc[r] \in {"await", "done"} /\ resp[r].kind # "payment"
Succeeded(r) == resp[r].kind = "json" /\ resp[r].status = "succeeded"

MultiSourceOps == {"daily-alpha", "fear-greed", "trending", "defi-stats"}

\* C3: an operation other than token-intel of which one source call failed
\* and the others succeeded still answers 'succeeded'.  (Stated of the
\* operations with several calls, digest and defi-stats.)
C3_SourceFailureTolerated ==
    \A r \in Reqs :
        ( /\ pc[r] = "done"
          /\ req[r].op \in MultiSourceOps
          /\ \E c \in CallsOf(req[r].op) :
                /\ raw[r][c].k = "transport"
                /\ CallsOf(req[r].op) # {c}
                /\ \A d \in CallsOf(req[r].op) \ {c} :
                      raw[r][d].k = "http" /\ slot[r][d].k = "resolved" )
        => Succeeded(r)

GoodSentiment ==
    Http(200, FearGreedBody(List(<<Reading(NumStr(20), Text("Extreme Fear"), NumStr(1))>>)))

\* C4: a digest request with sources ["feargreed"] succeeds with a non-null
\* fearGreedIndex, empty trending and topDeFi sections and no signal but
\* the sentiment rule's.
C4_FearGreedOnly ==
    \A r \in Reqs :
        ( /\ pc[r] = "done"
          /\ req[r].op = "daily-alpha"
          /\ req[r].sources = List(<<"feargreed">>)
          /\ raw[r]["fearGreed"] = GoodSentiment )
        => /\ Succeeded(r)
           /\ resp[r].out.fearGreedIndex.k = "num"
           /\ resp[r].out.trending = <<>>
           /\ resp[r].out.topDeFi = <<>>
           /\ \A i \in DOMAIN resp[r].out.signals :
                 resp[r].out.signals[i].type = "sentiment"

\* C5 as claimed: a digest request with sources [] fetches all three source
\* groups, like one that leaves the field out.
C5_EmptyIsDefault ==
    \A r \in Reqs :
        (Started(r) /\ req[r].op = "daily-alpha" /\ req[r].sources = List(<<>>))
        => \A c \in DigestCalls : Issued(r, c)

\* C5 as amended: a digest request that leaves sources out fetches all three
\* groups (five calls); one with sources [] selects no group and issues no
\* upstream call; any other selection issues exactly its groups' calls.
C5_EmptySelectsNothing ==
    \A r \in Reqs :
        (Started(r) /\ req[r].op = "daily-alpha") =>
            /\ Nullish(req[r].sources) => \A c \in DigestCalls : Issued(r, c)
            /\ req[r].sources = List(<<>>) => \A c \in DigestCalls : ~Issued(r, c)
            /\ ~Nullish(req[r].sources) =>
                  \A c \in DigestCalls :
                      Issued(r, c) <=> Includes(req[r].sources.items, GroupOf(c))

\* Reached: a digest with sources [] past its fan-out, nothing in flight.
C5_Witness ==
    \E r \in Reqs :
        /\ pc[r] = "await"
        /\ req[r].op = "daily-alpha"
        /\ req[r].sources = List(<<>>)
        /\ \A c \in DigestCalls : ~Issued(r, c) /\ slot[r][c] = Resolved(Null)

NotFoundAnswer(r) ==
    /\ pc[r] = "done"
    /\ req[r].op = "token-intel"
    /\ raw[r]["token"].k = "http"
    /\ raw[r]["token"].status = 404

\* C6 as claimed: when the upstream reports not-found, token-intel answers
\* 'failed' and its error names the id exactly as the caller supplied it.
C6_ErrorEchoesRequestedId ==
    \A r \in Reqs :
        (NotFoundAnswer(r) /\ req[r].token.k = "chars" /\ req[r].token.cs # <<>>)
        => /\ resp[r].kind = "json" /\ resp[r].status = "failed"
           /\ resp[r].out.error.kind = "notfound"
           /\ resp[r].out.error.id = req[r].token.cs

\* The id the handler looks up: the supplied id in lower case, 'bitcoin'
\* when the request supplies none (or an empty one).
LoweredId(token) ==
    IF Nullish(token) \/ token.cs = <<>> THEN Bitcoin
    ELSE [i \in 1..Len(token.cs) |->
             IF token.cs[i] = "B" THEN "b" ELSE token.cs[i]]

\* C6 as amended: when the upstream reports not-found, token-intel answers
\* (not throws) 'failed'; its error names the id that was looked up, which
\* is the supplied id in lower case ('bitcoin' when none was supplied),
\* beside the corrective suggestion, and no token data is returned.
C6_ErrorNamesLookupId ==
    \A r \in Reqs :
        NotFoundAnswer(r)
        => /\ resp[r].kind = "json" /\ resp[r].status = "failed"
           /\ resp[r].out.error.kind = "notfound"
           /\ resp[r].out.error.id = LoweredId(req[r].token)
           /\ resp[r].out.suggestion = "Use CoinGecko token ID (e.g., bitcoin, ethereum)"
           /\ DOMAIN resp[r].out = {"error", "suggestion"}

\* Reached: token "Bb" is not found and the error names "bb".
C6_Witness ==
    \E r \in Reqs :
        /\ NotFoundAnswer(r)
        /\ req[r].token = Chars(<<"B", "b">>)
        /\ resp[r].status = "failed"
        /\ resp[r].out.error.id = <<"b", "b">>

\* C7: token-intel reports 'Token <id> not found' only when the upstream
\* reported a missing resource (404), never for a transport failure or
\* another non-success status.
C7_NotFoundOnlyOn404 ==
    \A r \in Reqs :
        ( /\ pc[r] = "done"
          /\ req[r].op = "token-intel"
          /\ resp[r].kind = "json"
          /\ resp[r].status = "failed"
          /\ resp[r].out.error.kind = "notfound" )
        => raw[r]["token"].k = "http" /\ raw[r]["token"].status = 404

\* C8: when every source call of an operation was answered with a payload,
\* however malformed, the operation returns its response.  (A digest is
\* taken with all five of its calls answered.)
C8_MalformedNeverRaises ==
    \A r \in Reqs :
        ( /\ pc[r] = "done"
          /\ req[r].op \in MultiSourceOps
          /\ \A c \in CallsOf(req[r].op) : raw[r][c].k = "http"
          /\ \A c \in CallsOf(req[r].op) : slot[r][c].k # "pending" )
        => resp[r].kind = "json"

\* The sentiment payload r's handler holds carries no first reading (the
\* source was not requested, or the payload has none).
ReadingAbsent(r) ==
    /\ slot[r]["fearGreed"].k = "resolved"
    /\ Nullish(FirstReading(slot[r]["fearGreed"].v))

\* C14: when the sentiment reading is absent, the digest's marketContext and
\* the sentiment-index operation's current value both report score 50 and
\* class "Neutral", as the signal engine assumes, and the digest carries no
\* sentiment signal.
C14_DefaultNeutralEverywhere ==
    \A r \in Reqs :
        (pc[r] = "done" /\ Succeeded(r) /\ ReadingAbsent(r)) =>
            /\ req[r].op = "daily-alpha" =>
                  /\ resp[r].out.fearGreedIndex = Num(50)
                  /\ resp[r].out.fearGreedClass = Text("Neutral")
                  /\ OfType(resp[r].out.signals, "sentiment") = <<>>
            /\ req[r].op = "fear-greed" =>
                  /\ resp[r].out.current.value = Num(50)
                  /\ resp[r].out.current.classification = Text("Neutral")

\* The handler of r's operation has begun to run.
HandlerRan(r) ==
    \/ pc[r] \in {"handler", "await"}
    \/ pc[r] = "done" /\ resp[r].kind # "payment"

OnPaidPath(q) == q.op \in {"daily-alpha", "trending", "defi-stats", "token-intel"}
OnFreePath(q) == q.op \in {"ping", "fear-greed"}

Outstanding(r, c) == slot[r][c].k = "pending"

\* C16: within one digest request the signal engine runs, and the request
\* completes (with a response or an error), only once every requested
\* source call has settled: no digest request is complete while one of its
\* calls is still outstanding, a failed sibling call notwithstanding.
C16_FanInWaitsForAll ==
    \A r \in Reqs :
        req[r].op = "daily-alpha" =>
            /\ sig[r].called => \A c \in DigestCalls : ~Outstanding(r, c)
            /\ pc[r] = "done" => \A c \in DigestCalls : ~Outstanding(r, c)

\* A request none of whose calls is outstanding goes on to complete (or to
\* issue its calls).
SettledThenCompletes ==
    \A r \in Reqs :
        (pc[r] \in {"gate", "handler", "await"} /\ \A c \in Calls : ~Outstanding(r, c))
            ~> (pc[r] = "done" \/ \E c \in Calls : Outstanding(r, c))

\* C17: the core enforces no timeout.  A request whose call never resolves
\* never completes, whatever becomes of its other calls: since an upstream
\* may stay silent for ever, this is to say that no step completes a request
\* while one of its calls is outstanding.  And a request whose calls have
\* all settled does complete.
C17_NoTimeout ==
    /\ [][\A r \in Reqs : \A c \in Calls :
            (slot[r][c].k = "pending" /\ slot'[r][c].k = "pending")
                => ~(pc[r] # "done" /\ pc'[r] = "done")]_vars
    /\ SettledThenCompletes

\* The source clients of a group, and the groups a digest request selects.
ClientsOf(group) ==
    CASE group = "feargreed" -> {"fearGreed"}
      [] group = "coingecko" -> {"trending", "topCoins"}
      [] group = "defillama" -> {"defi", "dexVolume"}
Groups == {"feargreed", "coingecko", "defillama"}
Selects(q, group) ==
    Nullish(q.sources) \/ \E i \in DOMAIN q.sources.items : q.sources.items[i] = group

\* C18: a digest request issues one outbound call for each source client of
\* a selected group (feargreed: 1; coingecko: trending and market snapshot;
\* defillama: protocol list and DEX volume) and none for a group that is
\* not selected; a call is issued at the fan-out only, and once it has been
\* answered, failed or not, it is never in flight again (no retry).
C18_OneCallNoRetry ==
    /\ [](\A r \in Reqs :
            /\ (req[r].op = "daily-alpha" /\ pc[r] \in {"await", "done"}
                    /\ resp[r].kind # "payment") =>
                  \A g \in Groups : \A c \in ClientsOf(g) :
                      Issued(r, c) <=> Selects(req[r], g)
            /\ \A c \in Calls : raw[r][c].k # "none" => ~Outstanding(r, c))
    /\ [][\A r \in Reqs : \A c \in Calls :
            /\ (slot[r][c].k # "pending" /\ slot'[r][c].k = "pending") =>
                  (slot[r][c].k = "unused" /\ pc[r] = "handler" /\ pc'[r] = "await")
            /\ slot[r][c].k \in {"resolved", "rejected"} => slot'[r][c] = slot[r][c]
            /\ raw[r][c].k # "none" => raw'[r][c] = raw[r][c]]_vars

\* Reached: a digest of the coingecko group alone whose trending call has
\* failed and whose handler has gone: the failed call was not issued again
\* and the three clients of the other groups were never called.
C18_Witness ==
    \E r \in Reqs :
        /\ req[r].op = "daily-alpha" /\ req[r].sources = List(<<"coingecko">>)
        /\ pc[r] = "done"
        /\ raw[r]["trending"].k = "transport" /\ slot[r]["trending"].k = "rejected"
        /\ Issued(r, "topCoins")
        /\ \A c \in {"fearGreed", "defi", "dexVolume"} : ~Issued(r, c)

\* Signal x can have come from the data r's handler holds: a sentiment
\* signal carries r's score, a whale signal needs r's volume and price to
\* diverge, a narrative signal names an asset of r's trending feed, and a
\* protocol signal a protocol of r's list.
DerivedFrom(r, x) ==
    CASE x.type = "sentiment" ->
            /\ HasScore(r)
            /\ x.title.num = Score(r)
            /\ x.title.head = Arg(r, "fearGreed").data.items[1].value_classification.s
      [] x.type = "whale" -> Diverges(r)
      [] x.type = "narrative" ->
            \E i \in DOMAIN TrendingCoins(r) :
                /\ toUpperCase(TrendingCoins(r)[i].symbol) = x.asset
                /\ TrendingCoins(r)[i].change = Num(x.title.num)
      [] x.type = "protocol" ->
            \E i \in DOMAIN Protocols(r) :
                /\ Protocols(r)[i].name = x.asset
                /\ Protocols(r)[i].tvlChange7d = Num(x.title.num)
      [] OTHER -> FALSE

\* C19: requests share no mutable state.  However two requests interleave,
\* every signal in a request's list is derived from that request's own
\* data, the list holds at most one signal per rule firing (no leftovers of
\* another call), the response carries exactly that list, and two requests
\* with the same input and the same upstream answers end with the same
\* output, whichever ran first, alone or interleaved.
C19_NoSharedState ==
    /\ \A r \in Pair :
          Returned(r) =>
              /\ \A i \in DOMAIN sig[r].out : DerivedFrom(r, sig[r].out[i])
              /\ Len(OfType(sig[r].out, "sentiment")) <= 1
              /\ Len(OfType(sig[r].out, "whale")) <= 1
              /\ Len(OfType(sig[r].out, "narrative")) = Len(Positions(TrendingCoins(r), 3, RisesOver10))
              /\ Len(OfType(sig[r].out, "protocol")) = Len(Positions(Protocols(r), 3, GrowsOver10))
              /\ Succeeded(r) => resp[r].out.signals = sig[r].out
    /\ \A r, o \in Pair :
          (pc[r] = "done" /\ pc[o] = "done" /\ req[r] = req[o] /\ raw[r] = raw[o])
              => (resp[r] = resp[o] /\ sig[r] = sig[o])

\* Reached: two digests that overlapped, each complete with the signals of
\* its own, different, data.
C19_Witness ==
    /\ \A r \in Pair : req[r].op = "daily-alpha" /\ Succeeded(r) /\ Returned(r)
    /\ Score("r1") = 20 /\ Score("r2") = 80
    /\ Protocols("r1")[1].name = "Lido" /\ Protocols("r2")[1].name = "Aave"
    /\ Len(sig["r1"].out) = 2 /\ Len(sig["r2"].out) = 2
    /\ sig["r1"].out[1].title.num = 20 /\ sig["r2"].out[1].title.num = 80
    /\ sig["r1"].out[2].asset = "Lido" /\ sig["r2"].out[2].asset = "Aave"

====
